---- MODULE Spec2Model ----
(***************************************************************************)
(* cityres.py: resolution of "<cityname>;<north>,<west>,<south>,<east>"    *)
(* into one dbpedia resource.  A Python str is modelled as the sequence of *)
(* its code points, so that str.split, string equality, string ordering   *)
(* and the two string distances work on characters.                        *)
(***************************************************************************)
EXTENDS Integers, Sequences, FiniteSets, TLC

\* ---- bounds of the model --------------------------------------------------
MaxNameLen == 1     \* longest city name drawn for the function calls
MaxTokens == 5      \* most comma separated tokens in a drawn search string
MaxDigit == 2       \* coordinates are the one digit numerals 0..MaxDigit
MaxCandLen == 2     \* most letters after the '/' of a drawn candidate uri
MaxUris == 2        \* most candidates in a drawn candidate list
MaxRawLen == 5      \* longest text the s-query process prints

\* ---- characters -----------------------------------------------------------
SEMI == 59          \* ';'
COMMA == 44         \* ','
NL == 10            \* '\n'
Letters == {97, 98}                 \* 'a', 'b'
Digits == {48 + d : d \in 0..MaxDigit}

\* ---- Python str and list primitives -----------------------------------------
Max(a, b) == IF a >= b THEN a ELSE b
Min(a, b) == IF a <= b THEN a ELSE b

Elems(seq) == {seq[i] : i \in DOMAIN seq}

\* every sequence over S of length 0..n
SeqsUpTo(S, n) == UNION {[1..k -> S] : k \in 0..n}

\* str.find(c) + 1, or 0 when c does not occur
Find(s, c) ==
  IF \E i \in DOMAIN s : s[i] = c
  THEN CHOOSE i \in DOMAIN s : s[i] = c /\ \A j \in 1..(i - 1) : s[j] # c
  ELSE 0

\* s.split(sep) for a one character separator: every occurrence splits, and
\* the result has one more element than s has separators
RECURSIVE Split(_, _)
Split(s, sep) ==
  LET i == Find(s, sep)
  IN IF i = 0 THEN <<s>>
     ELSE <<SubSeq(s, 1, i - 1)>> \o Split(SubSeq(s, i + 1, Len(s)), sep)

\* sep.join(parts)
RECURSIVE JoinWith(_, _)
JoinWith(parts, sep) ==
  IF Len(parts) = 0 THEN <<>>
  ELSE IF Len(parts) = 1 THEN parts[1]
  ELSE parts[1] \o <<sep>> \o JoinWith(Tail(parts), sep)

\* s < t for two str: code point by code point, a proper prefix is smaller
RECURSIVE StrLess(_, _)
StrLess(s, t) ==
  IF Len(t) = 0 THEN FALSE
  ELSE IF Len(s) = 0 THEN TRUE
  ELSE IF s[1] # t[1] THEN s[1] < t[1]
  ELSE StrLess(Tail(s), Tail(t))

\* p < q for two (int, str) tuples
TupleLess(p, q) == p[1] < q[1] \/ (p[1] = q[1] /\ StrLess(p[2], q[2]))

RECURSIVE InsertSorted(_, _)
InsertSorted(e, sorted) ==
  IF Len(sorted) = 0 THEN <<e>>
  ELSE IF TupleLess(sorted[1], e)
       THEN <<sorted[1]>> \o InsertSorted(e, Tail(sorted))
       ELSE <<e>> \o sorted

\* list.sort() of a list of (int, str) tuples, ascending
RECURSIVE Sort(_)
Sort(l) == IF Len(l) = 0 THEN <<>> ELSE InsertSorted(l[1], Sort(Tail(l)))

\* ---- what a call ends with --------------------------------------------------
Pending == [outcome |-> "pending", val |-> <<>>, exc |-> "none"]
Returned(v) == [outcome |-> "returned", val |-> v, exc |-> "none"]
ReturnedNone == [outcome |-> "None", val |-> <<>>, exc |-> "none"]
Raised(e) == [outcome |-> "raised", val |-> <<>>, exc |-> e]

\* ---- unpack_search ----------------------------------------------------------
unpack_search(s) ==
  LET tmp == Split(s, SEMI)
  IN IF Len(tmp) < 2 THEN Raised("IndexError")      \* tmp[1]
     ELSE LET coords == Split(tmp[2], COMMA)
          IN IF Len(coords) < 4 THEN Raised("IndexError")   \* coords[1..3]
             ELSE Returned(<<tmp[1], coords[1], coords[2], coords[3],
                             coords[4]>>)

\* ---- query_string -----------------------------------------------------------
\* The query text is the fixed template with four slots; it is kept as the
\* two rdf types of the UNION and the conjuncts of FILTER, in template order.
NoQuery == [types |-> {}, filter |-> <<>>]

query_template(a0, a1, a2, a3) ==
  [types |-> {"dbowl:City", "dbowl:Town"},
   filter |-> << [var |-> "lat", op |-> "<", val |-> a0],
                 [var |-> "long", op |-> ">", val |-> a1],
                 [var |-> "lat", op |-> ">", val |-> a2],
                 [var |-> "long", op |-> "<", val |-> a3] >>]

\* query_string with north and south in each other's slot of the template
query_string_swapped(s) ==
  LET u == unpack_search(s)
  IN IF u.outcome = "raised" THEN u
     ELSE Returned(query_template(u.val[4], u.val[3], u.val[2], u.val[5]))

query_string(s) ==
  LET u == unpack_search(s)
  IN IF u.outcome = "raised" THEN u
     ELSE LET north == u.val[2]
              west == u.val[3]
              south == u.val[4]
              east == u.val[5]
          IN Returned(query_template(north, west, south, east))

\* a decimal literal of digits only, as the store reads it
RECURSIVE Num(_)
Num(t) ==
  IF Len(t) = 0 THEN 0
  ELSE 10 * Num(SubSeq(t, 1, Len(t) - 1)) + (t[Len(t)] - 48)

\* the FILTER of a query evaluated on one resource's ?lat and ?long
FilterAccepts(q, lat, long) ==
  \A i \in DOMAIN q.filter :
    LET c == q.filter[i]
        x == IF c.var = "lat" THEN lat ELSE long
    IN IF c.op = "<" THEN x < Num(c.val) ELSE x > Num(c.val)

\* ---- uri: the lines of the csv output -----------------------------------------

\* result_lines without the [1:] that drops the header
result_lines_with_header(shell_result_raw) ==
  SelectSeq(Split(shell_result_raw, NL), LAMBDA l : l # <<>>)

\* shell_result_raw.split("\n")[1:] without the empty lines
result_lines(shell_result_raw) ==
  LET shell_lines == Tail(Split(shell_result_raw, NL))
  IN SelectSeq(shell_lines, LAMBDA l : l # <<>>)

\* ---- special_cases ----------------------------------------------------------
\* line 94: 'Byron Bay;-28.6146006,153.56699,-28.6791425,153.6380002'
KeyByronBay ==
  <<
    66, 121, 114, 111, 110, 32, 66, 97, 121, 59, 45, 50, 56, 46, 54, 49,
    52, 54, 48, 48, 54, 44, 49, 53, 51, 46, 53, 54, 54, 57, 57, 44, 45, 50,
    56, 46, 54, 55, 57, 49, 52, 50, 53, 44, 49, 53, 51, 46, 54, 51, 56, 48,
    48, 48, 50 >>
\* line 95: '"http://dbpedia.org/resource/Byron_Bay,_New_South_Wales"'
UriByronBay ==
  <<
    34, 104, 116, 116, 112, 58, 47, 47, 100, 98, 112, 101, 100, 105, 97,
    46, 111, 114, 103, 47, 114, 101, 115, 111, 117, 114, 99, 101, 47, 66,
    121, 114, 111, 110, 95, 66, 97, 121, 44, 95, 78, 101, 119, 95, 83, 111,
    117, 116, 104, 95, 87, 97, 108, 101, 115, 34 >>

\* line 96: 'Cape Town;-33.87707901,18.35102081,-34.126091,18.62934303'
KeyCapeTown ==
  <<
    67, 97, 112, 101, 32, 84, 111, 119, 110, 59, 45, 51, 51, 46, 56, 55,
    55, 48, 55, 57, 48, 49, 44, 49, 56, 46, 51, 53, 49, 48, 50, 48, 56, 49,
    44, 45, 51, 52, 46, 49, 50, 54, 48, 57, 49, 44, 49, 56, 46, 54, 50, 57,
    51, 52, 51, 48, 51 >>
\* line 97: '"http://dbpedia.org/resource/Cape_town"'
UriCapeTown ==
  <<
    34, 104, 116, 116, 112, 58, 47, 47, 100, 98, 112, 101, 100, 105, 97,
    46, 111, 114, 103, 47, 114, 101, 115, 111, 117, 114, 99, 101, 47, 67,
    97, 112, 101, 95, 116, 111, 119, 110, 34 >>

\* line 98: 'Noosa;-26.3765921,153.0343404,-26.5340226,153.1197593'
KeyNoosa ==
  <<
    78, 111, 111, 115, 97, 59, 45, 50, 54, 46, 51, 55, 54, 53, 57, 50, 49,
    44, 49, 53, 51, 46, 48, 51, 52, 51, 52, 48, 52, 44, 45, 50, 54, 46, 53,
    51, 52, 48, 50, 50, 54, 44, 49, 53, 51, 46, 49, 49, 57, 55, 53, 57, 51 >>
\* line 99: '"http://dbpedia.org/resource/Noosa"'
UriNoosa ==
  <<
    34, 104, 116, 116, 112, 58, 47, 47, 100, 98, 112, 101, 100, 105, 97,
    46, 111, 114, 103, 47, 114, 101, 115, 111, 117, 114, 99, 101, 47, 78,
    111, 111, 115, 97, 34 >>

\* line 100: 'Taormina;37.8654516,15.2760182,37.8443377,15.2983239'
KeyTaormina ==
  <<
    84, 97, 111, 114, 109, 105, 110, 97, 59, 51, 55, 46, 56, 54, 53, 52,
    53, 49, 54, 44, 49, 53, 46, 50, 55, 54, 48, 49, 56, 50, 44, 51, 55, 46,
    56, 52, 52, 51, 51, 55, 55, 44, 49, 53, 46, 50, 57, 56, 51, 50, 51, 57 >>
\* line 101: '"http://dbpedia.org/resource/Taormina"'
UriTaormina ==
  <<
    34, 104, 116, 116, 112, 58, 47, 47, 100, 98, 112, 101, 100, 105, 97,
    46, 111, 114, 103, 47, 114, 101, 115, 111, 117, 114, 99, 101, 47, 84,
    97, 111, 114, 109, 105, 110, 97, 34 >>

\* line 102: 'M\xc3\xa1laga;36.7575526,-4.52108288,36.59741592,-4.3394965'
KeyMalaga ==
  <<
    77, 195, 161, 108, 97, 103, 97, 59, 51, 54, 46, 55, 53, 55, 53, 53, 50,
    54, 44, 45, 52, 46, 53, 50, 49, 48, 56, 50, 56, 56, 44, 51, 54, 46, 53,
    57, 55, 52, 49, 53, 57, 50, 44, 45, 52, 46, 51, 51, 57, 52, 57, 54, 53 >>
\* line 103: '"http://dbpedia.org/resource/Malaga"'
UriMalaga ==
  <<
    34, 104, 116, 116, 112, 58, 47, 47, 100, 98, 112, 101, 100, 105, 97,
    46, 111, 114, 103, 47, 114, 101, 115, 111, 117, 114, 99, 101, 47, 77,
    97, 108, 97, 103, 97, 34 >>

\* line 104: 'Nerja;36.7681638,-3.887332,36.7413336,-3.844'
KeyNerja ==
  <<
    78, 101, 114, 106, 97, 59, 51, 54, 46, 55, 54, 56, 49, 54, 51, 56, 44,
    45, 51, 46, 56, 56, 55, 51, 51, 50, 44, 51, 54, 46, 55, 52, 49, 51, 51,
    51, 54, 44, 45, 51, 46, 56, 52, 52 >>
\* line 105: '"http://dbpedia.org/resource/Nerja"'
UriNerja ==
  <<
    34, 104, 116, 116, 112, 58, 47, 47, 100, 98, 112, 101, 100, 105, 97,
    46, 111, 114, 103, 47, 114, 101, 115, 111, 117, 114, 99, 101, 47, 78,
    101, 114, 106, 97, 34 >>

special_cases(s) ==
  IF s = KeyByronBay THEN <<UriByronBay>>
  ELSE IF s = KeyCapeTown THEN <<UriCapeTown>>
  ELSE IF s = KeyNoosa THEN <<UriNoosa>>
  ELSE IF s = KeyTaormina THEN <<UriTaormina>>
  ELSE IF s = KeyMalaga THEN <<UriMalaga>>
  ELSE IF s = KeyNerja THEN <<UriNerja>>
  ELSE <<>>

\* ---- strdist.longest_sub_len and pylev.levenshtein ----------------------------
\* One row of the longest common subsequence table: row[j + 1] is the length
\* for the prefix of a read so far and the first j characters of b.
RECURSIVE LcsRow(_, _, _, _)
LcsRow(prev, ch, b, cur) ==
  IF Len(cur) = Len(b) + 1 THEN cur
  ELSE LET j == Len(cur)
       IN LcsRow(prev, ch, b,
                 Append(cur, IF ch = b[j] THEN prev[j] + 1
                             ELSE Max(prev[j + 1], cur[j])))

RECURSIVE LcsFrom(_, _, _, _)
LcsFrom(a, b, i, prev) ==
  IF i > Len(a) THEN prev[Len(b) + 1]
  ELSE LcsFrom(a, b, i + 1, LcsRow(prev, a[i], b, <<0>>))

longest_sub_len(a, b) == LcsFrom(a, b, 1, [j \in 1..(Len(b) + 1) |-> 0])

\* One row of the edit distance table (insert, delete, substitute cost 1).
RECURSIVE LevRow(_, _, _, _)
LevRow(prev, ch, b, cur) ==
  IF Len(cur) = Len(b) + 1 THEN cur
  ELSE LET j == Len(cur)
       IN LevRow(prev, ch, b,
                 Append(cur, Min(Min(prev[j + 1] + 1, cur[j] + 1),
                                 prev[j] + (IF ch = b[j] THEN 0 ELSE 1))))

RECURSIVE LevFrom(_, _, _, _)
LevFrom(a, b, i, prev) ==
  IF i > Len(a) THEN prev[Len(b) + 1]
  ELSE LevFrom(a, b, i + 1, LevRow(prev, a[i], b, <<i>>))

levenshtein(a, b) == LevFrom(a, b, 1, [j \in 1..(Len(b) + 1) |-> j - 1])

\* ---- choose_best ------------------------------------------------------------

\* choose_best without the tie break: the last of the sorted distances
choose_best_no_tie_break(name, uris) ==
  LET distances ==
        Sort([i \in 1..Len(uris) |->
                <<longest_sub_len(name, uris[i]), uris[i]>>])
  IN distances[Len(distances)][2]

\* choose_best without the two sorts: the first candidate, in the order
\* given, among those of largest subsequence and then smallest distance
choose_best_unsorted(name, uris) ==
  LET longest == CHOOSE n \in {longest_sub_len(name, u) : u \in Elems(uris)} :
                   \A u \in Elems(uris) : longest_sub_len(name, u) <= n
      ties == SelectSeq(uris, LAMBDA u : longest_sub_len(name, u) = longest)
      nearest == CHOOSE d \in {levenshtein(name, u) : u \in Elems(ties)} :
                   \A u \in Elems(ties) : d <= levenshtein(name, u)
  IN SelectSeq(ties, LAMBDA u : levenshtein(name, u) = nearest)[1]

choose_best(name, uris) ==
  LET distances ==
        Sort([i \in 1..Len(uris) |->
                <<longest_sub_len(name, uris[i]), uris[i]>>])
      result_subseq_length == distances[Len(distances)][1]
      ties == SelectSeq(distances, LAMBDA e : e[1] = result_subseq_length)
  IN IF Len(ties) > 1
     THEN LET tie_distances ==
                Sort([i \in 1..Len(ties) |->
                        <<levenshtein(name, ties[i][2]), ties[i][2]>>])
          IN tie_distances[1][2]
     ELSE distances[Len(distances)][2]

\* ---- inputs -----------------------------------------------------------------
OverrideKeys ==
  {KeyByronBay, KeyCapeTown, KeyNoosa, KeyTaormina, KeyMalaga, KeyNerja}

\* search strings: a name alone, a name and a coordinate part, and the same
\* followed by a further ';' and more text
SearchesOf(names, coordparts, trailers) ==
  names
  \cup {n \o <<SEMI>> \o c : n \in names, c \in coordparts}
  \cup {n \o <<SEMI>> \o c \o <<SEMI>> \o t :
          n \in names, c \in coordparts, t \in trailers}

\* coordinate parts: the four numerals of a box, the same cut short, followed
\* by further tokens, or with a letter for one of the numerals
CoordParts(numerals) ==
  LET boxes == [1..4 -> numerals]
      extras == SeqsUpTo({<<48>>, <<97>>}, MaxTokens - 4)
      tokens == {SubSeq(b, 1, k) : b \in boxes, k \in 0..4}
                \cup {b \o e : b \in boxes, e \in extras}
                \cup {[b EXCEPT ![k] = <<97>>] : b \in boxes, k \in 1..4}
  IN {JoinWith(ts, COMMA) : ts \in tokens}

Names == SeqsUpTo(Letters, MaxNameLen)

\* what the functions of the module are called with
Searches ==
  SearchesOf(Names, CoordParts({<<d>> : d \in Digits}), {<<48>>})
  \cup OverrideKeys

\* what the command line passes to cityres
CliSearches ==
  SearchesOf({<<97>>}, CoordParts({<<48>>}), {<<98>>}) \cup OverrideKeys

\* candidate uris: a '/' as in the resource path, then letters
Candidates == {<<47>> \o s : s \in SeqsUpTo(Letters, MaxCandLen)}

CandidateLists == SeqsUpTo(Candidates, MaxUris) \ {<<>>}

\* what the s-query process can print
RawTexts == SeqsUpTo(Letters \cup {NL}, MaxRawLen)

\* ---- state ------------------------------------------------------------------
VARIABLES
  pc,                \* where the call is
  search,            \* the search argument
  query,             \* query_instance
  returncode,        \* exit status of the s-query process
  shell_result_raw,  \* its standard output
  lines,             \* what uri returned
  possible_uris,     \* candidates handed to choose_best
  city,              \* name handed to choose_best
  result,            \* what the call ended with
  trace              \* the functions and the process run so far, in order

vars == <<pc, search, query, returncode, shell_result_raw, lines,
          possible_uris, city, result, trace>>

Blank ==
  /\ query = NoQuery
  /\ returncode = 0
  /\ shell_result_raw = <<>>
  /\ lines = <<>>
  /\ possible_uris = <<>>
  /\ city = <<>>
  /\ result = Pending
  /\ trace = <<>>

\* ---- cityres(search, endpoint), step by step ----------------------------------
Init ==
  /\ pc = "cityres"
  /\ search \in CliSearches
  /\ Blank

\* uri: query_instance = query_string(search); an exception ends cityres
UriQuery ==
  /\ pc = "cityres"
  /\ trace' = Append(trace, "query_string")
  /\ LET q == query_string(search)
     IN IF q.outcome = "raised"
        THEN /\ result' = q
             /\ pc' = "done"
             /\ query' = query
        ELSE /\ query' = q.val
             /\ pc' = "s-query"
             /\ result' = result
  /\ UNCHANGED <<search, returncode, shell_result_raw, lines, possible_uris,
                 city>>

\* uri: check_output returns the output of a process that exits with 0
UriOutput ==
  /\ pc = "s-query"
  /\ \E raw \in RawTexts :
       /\ shell_result_raw' = raw
       /\ lines' = result_lines(raw)
  /\ returncode' = 0
  /\ trace' = Append(trace, "s-query")
  /\ pc' = "or"
  /\ UNCHANGED <<search, query, possible_uris, city, result>>

\* UriFails with the exception caught and an empty list returned by uri
UriFailsCaught ==
  /\ pc = "s-query"
  /\ returncode' = 1
  /\ trace' = Append(trace, "s-query")
  /\ lines' = <<>>
  /\ pc' = "or"
  /\ UNCHANGED <<search, query, shell_result_raw, possible_uris, city, result>>

\* uri: check_output raises when the process exits with another status
UriFails ==
  /\ pc = "s-query"
  /\ returncode' = 1
  /\ trace' = Append(trace, "s-query")
  /\ result' = Raised("CalledProcessError")
  /\ pc' = "done"
  /\ UNCHANGED <<search, query, shell_result_raw, lines, possible_uris, city>>

\* OrSpecialCases with + in place of or: the two lists concatenated
OrSpecialCasesMerged ==
  /\ pc = "or"
  /\ possible_uris' = lines \o special_cases(search)
  /\ trace' = Append(trace, "special_cases")
  /\ pc' = "len"
  /\ UNCHANGED <<search, query, returncode, shell_result_raw, lines, city,
                 result>>

\* possible_uris = uri(search, endpoint) or special_cases(search)
OrSpecialCases ==
  /\ pc = "or"
  /\ IF lines # <<>>
     THEN /\ possible_uris' = lines
          /\ trace' = trace
     ELSE /\ possible_uris' = special_cases(search)
          /\ trace' = Append(trace, "special_cases")
  /\ pc' = "len"
  /\ UNCHANGED <<search, query, returncode, shell_result_raw, lines, city,
                 result>>

\* Choose without the test of len(possible_uris): distances[-1] of an empty
\* list raises
ChooseUnguarded ==
  /\ pc = "len"
  /\ city' = unpack_search(search).val[1]
  /\ trace' = trace \o <<"unpack_search", "choose_best">>
  /\ result' = IF Len(possible_uris) = 0 THEN Raised("IndexError")
                ELSE Returned(choose_best(city', possible_uris))
  /\ pc' = "done"
  /\ UNCHANGED <<search, query, returncode, shell_result_raw, lines,
                 possible_uris>>

\* if len(possible_uris) == 0: return None; else unpack and choose_best
Choose ==
  /\ pc = "len"
  /\ IF Len(possible_uris) = 0
     THEN /\ result' = ReturnedNone
          /\ UNCHANGED <<city, trace>>
     ELSE /\ city' = unpack_search(search).val[1]
          /\ trace' = trace \o <<"unpack_search", "choose_best">>
          /\ result' = Returned(choose_best(city', possible_uris))
  /\ pc' = "done"
  /\ UNCHANGED <<search, query, returncode, shell_result_raw, lines,
                 possible_uris>>

Next == UriQuery \/ UriOutput \/ UriFails \/ OrSpecialCases \/ Choose

Spec == Init /\ [][Next]_vars

\* ---- the functions of the module called on their own --------------------------
\* one call per behaviour, on arguments drawn from the bounded sets
InitCalls ==
  /\ pc = "idle"
  /\ search = <<>>
  /\ Blank

CallUnpackSearch ==
  /\ pc = "idle"
  /\ \E s \in Searches :
       /\ search' = s
       /\ result' = unpack_search(s)
  /\ pc' = "unpack_search"
  /\ query' = NoQuery
  /\ city' = <<>>
  /\ possible_uris' = <<>>
  /\ UNCHANGED <<returncode, shell_result_raw, lines, trace>>

\* main with --dump: query = query_string(args.search); print(query)
CallQueryString ==
  /\ pc = "idle"
  /\ \E s \in Searches :
       /\ search' = s
       /\ LET q == query_string(s)
          IN IF q.outcome = "raised"
             THEN /\ result' = q
                  /\ query' = NoQuery
             ELSE /\ result' = ReturnedNone
                  /\ query' = q.val
  /\ pc' = "query_string"
  /\ city' = <<>>
  /\ possible_uris' = <<>>
  /\ UNCHANGED <<returncode, shell_result_raw, lines, trace>>

CallChooseBest ==
  /\ pc = "idle"
  /\ \E c \in Names, uris \in CandidateLists :
       /\ city' = c
       /\ possible_uris' = uris
       /\ result' = Returned(choose_best(c, uris))
  /\ pc' = "choose_best"
  /\ search' = <<>>
  /\ query' = NoQuery
  /\ UNCHANGED <<returncode, shell_result_raw, lines, trace>>

NextCalls == CallUnpackSearch \/ CallQueryString \/ CallChooseBest

SpecCalls == InitCalls /\ [][NextCalls]_vars

\* ---- properties --------------------------------------------------------------
InTrace(f) == \E i \in DOMAIN trace : trace[i] = f

\* the s-query process ran and exited with 0
QueryAnswered == InTrace("s-query") /\ returncode = 0

LcsTo(u) == longest_sub_len(city, u)
LevTo(u) == levenshtein(city, u)

\* the candidates of the list whose subsequence with the name is longest
LongestOf(uris) ==
  {u \in Elems(uris) : \A v \in Elems(uris) : LcsTo(v) <= LcsTo(u)}

\* among those, the candidates nearest to the name
NearestOf(uris) ==
  LET longest == LongestOf(uris)
  IN {u \in longest : \A v \in longest : LevTo(u) <= LevTo(v)}

\* C1: choose_best returns a candidate of the list whose longest common
\* subsequence with the name is the largest of the list and whose Levenshtein
\* distance to the name is the smallest among the candidates with that
\* largest subsequence.
C1_LcsThenLevenshtein ==
  pc = "choose_best" =>
    /\ result.outcome = "returned"
    /\ result.val \in Elems(possible_uris)
    /\ \A u \in Elems(possible_uris) :
         /\ LcsTo(u) <= LcsTo(result.val)
         /\ LcsTo(u) = LcsTo(result.val) => LevTo(result.val) <= LevTo(u)

\* a candidate nearer to the name loses to the result on the subsequence
C1_Witness ==
  /\ pc = "choose_best"
  /\ \E u \in Elems(possible_uris) :
       LcsTo(u) < LcsTo(result.val) /\ LevTo(u) < LevTo(result.val)

\* C2: when the query returns at least one candidate, the list handed to
\* choose_best is the list uri returned, special_cases is not called, and
\* cityres returns one of the candidates uri returned.
C2_LiveResultsOnly ==
  /\ InTrace("special_cases") => QueryAnswered /\ lines = <<>>
  /\ (QueryAnswered /\ lines # <<>> /\ pc \in {"len", "done"}) =>
       /\ possible_uris = lines
       /\ ~InTrace("special_cases")
       /\ pc = "done" =>
            result.outcome = "returned" /\ result.val \in Elems(lines)

C2_Witness ==
  /\ pc = "done"
  /\ QueryAnswered
  /\ lines # <<>>
  /\ search \in OverrideKeys
  /\ result.outcome = "returned"

\* C3: when the s-query process fails, cityres ends with that exception:
\* special_cases and choose_best are not called and nothing is returned.
C3_FailurePropagates ==
  returncode # 0 =>
    /\ pc = "done"
    /\ result = Raised("CalledProcessError")
    /\ ~InTrace("special_cases")
    /\ ~InTrace("choose_best")

C3_Witness ==
  /\ returncode # 0
  /\ search \in OverrideKeys
  /\ result.outcome = "raised"

\* C4: when the query succeeds with no candidate, cityres returns None without
\* calling choose_best if special_cases has nothing for the search string, and
\* returns what choose_best picks from the special_cases list otherwise;
\* choose_best is never called with an empty list.
C4_NoMatchOrOverride ==
  /\ InTrace("choose_best") => possible_uris # <<>>
  /\ (pc = "done" /\ QueryAnswered /\ lines = <<>>) =>
       IF special_cases(search) = <<>>
       THEN result = ReturnedNone /\ ~InTrace("choose_best")
       ELSE /\ possible_uris = special_cases(search)
            /\ InTrace("choose_best")
            /\ result = Returned(special_cases(search)[1])

C4_Witness ==
  /\ pc = "done"
  /\ QueryAnswered
  /\ lines = <<>>
  /\ special_cases(search) = <<>>
  /\ result = ReturnedNone

\* the text before and after the first occurrence of c
BeforeFirst(s, c) == SubSeq(s, 1, Find(s, c) - 1)
AfterFirst(s, c) == SubSeq(s, Find(s, c) + 1, Len(s))

HasSeparator(s) == Find(s, SEMI) # 0

\* the number of comma separated tokens after the first ';'
TokenCount(s) ==
  1 + Cardinality({i \in DOMAIN AfterFirst(s, SEMI) :
                     AfterFirst(s, SEMI)[i] = COMMA})

\* C5: unpack_search fails whenever the part after the separator does not
\* split into exactly 4 comma separated tokens, with fewer as with more.
C5_ExactlyFourTokens ==
  (pc = "unpack_search" /\ HasSeparator(search) /\ TokenCount(search) # 4) =>
    result.outcome = "raised"

\* C6: unpack_search fails without a ';'; otherwise the name is the text
\* before the first ';' and north, west, south, east are the first four comma
\* separated tokens of all the text after the first ';'.
C6_SplitOnFirstSeparator ==
  pc = "unpack_search" =>
    IF ~HasSeparator(search) THEN result.outcome = "raised"
    ELSE result.outcome = "returned" =>
           LET tokens == Split(AfterFirst(search, SEMI), COMMA)
           IN result.val = <<BeforeFirst(search, SEMI), tokens[1], tokens[2],
                             tokens[3], tokens[4]>>

\* a token made of digits only
IsNumeral(t) == Len(t) > 0 /\ \A i \in DOMAIN t : t[i] \in 48..57

\* C7: the FILTER of the query accepts (lat, long) exactly when lat < north,
\* lat > south, long > west and long < east, for north, west, south, east the
\* first, second, third and fourth coordinate of the search string.
C7_FilterIsTheBox ==
  (pc = "query_string" /\ result.outcome # "raised") =>
    LET spec == unpack_search(search).val
    IN (\A k \in 2..5 : IsNumeral(spec[k])) =>
         /\ Len(query.filter) = 4
         /\ \A lat, long \in (0 - 1)..(MaxDigit + 1) :
              FilterAccepts(query, lat, long) <=>
                /\ lat < Num(spec[2])
                /\ lat > Num(spec[4])
                /\ long > Num(spec[3])
                /\ long < Num(spec[5])

\* a box that holds a point, which north and south exchanged would not hold
C7_Witness ==
  /\ pc = "query_string"
  /\ result.outcome # "raised"
  /\ \A k \in 2..5 : IsNumeral(unpack_search(search).val[k])
  /\ FilterAccepts(query, 1, 1)
  /\ ~FilterAccepts(query, 0, 1)
  /\ ~FilterAccepts(query, 1, 2)

\* the raw text after its first line
Body(raw) == IF Find(raw, NL) = 0 THEN <<>> ELSE AfterFirst(raw, NL)

\* where the non-empty lines of s start, and where the line starting at p ends
LineStarts(s) ==
  {i \in DOMAIN s : s[i] # NL /\ (i = 1 \/ s[i - 1] = NL)}
LineEnd(s, p) ==
  CHOOSE e \in p..Len(s) :
    /\ \A i \in p..e : s[i] # NL
    /\ e = Len(s) \/ s[e + 1] = NL
NthStart(s, n) ==
  CHOOSE p \in LineStarts(s) :
    Cardinality({q \in LineStarts(s) : q < p}) = n - 1

\* C8: uri returns, in order and unchanged, every non-empty line of the raw
\* text after the first one, duplicates included, and the empty list when
\* there is none.
C8_LinesAfterHeader ==
  QueryAnswered =>
    LET body == Body(shell_result_raw)
    IN /\ Len(lines) = Cardinality(LineStarts(body))
       /\ \A n \in DOMAIN lines :
            lines[n] = SubSeq(body, NthStart(body, n),
                              LineEnd(body, NthStart(body, n)))

\* a first line that is not empty, then an empty line and the same line twice
C8_Witness ==
  /\ QueryAnswered
  /\ shell_result_raw # <<>>
  /\ shell_result_raw[1] # NL
  /\ Len(lines) = 2
  /\ lines[1] = lines[2]

Permuted(uris, p) == [i \in 1..Len(uris) |-> uris[p[i]]]

\* C9: choose_best returns the lexically smallest of the candidates that tie
\* on the largest subsequence and the smallest distance, and returns the same
\* candidate for every permutation of the list and for the list with its
\* candidates repeated.
C9_OrderIndependent ==
  pc = "choose_best" =>
    /\ LET nearest == NearestOf(possible_uris)
       IN /\ result.val \in nearest
          /\ \A u \in nearest : u = result.val \/ StrLess(result.val, u)
    /\ \A p \in Permutations(1..Len(possible_uris)) :
         choose_best(city, Permuted(possible_uris, p)) = result.val
    /\ choose_best(city, possible_uris \o possible_uris) = result.val

\* two candidates tie on both measures and the first of the list is not the
\* smallest of them
C9_Witness ==
  /\ pc = "choose_best"
  /\ Cardinality(NearestOf(possible_uris)) > 1
  /\ possible_uris[1] \in NearestOf(possible_uris)
  /\ possible_uris[1] # result.val

\* a decimal literal: an optional '-', digits, at most one '.'
IsNumber(t) ==
  LET body == IF Len(t) > 0 /\ t[1] = 45 THEN Tail(t) ELSE t
  IN /\ \A i \in DOMAIN body : body[i] \in (48..57) \cup {46}
     /\ \E i \in DOMAIN body : body[i] \in 48..57
     /\ Cardinality({i \in DOMAIN body : body[i] = 46}) <= 1

Malformed(s) ==
  \/ ~HasSeparator(s)
  \/ TokenCount(s) # 4
  \/ \E t \in Elems(Split(AfterFirst(s, SEMI), COMMA)) : ~IsNumber(t)

\* C10: for a malformed search string (no ';', a number of coordinates other
\* than 4, or a coordinate that is not a number) cityres raises without the
\* s-query process being run and without special_cases being called.
C10_MalformedRejectedFirst ==
  Malformed(search) =>
    /\ ~InTrace("s-query")
    /\ ~InTrace("special_cases")
    /\ pc = "done" => result.outcome = "raised"

====
